---- MODULE Spec2Model ----
(***************************************************************************)
(* A model of pfmsoft/rate_limit/rate_limit.py: the RateLimit base class   *)
(* (interval bookkeeping, check_for_wait, the interval adjustments) and    *)
(* the limit() wrappers of SyncRateLimit and AsyncRateLimit.               *)
(*                                                                         *)
(* Time is the integer reading of perf_counter_ns().  A limit() call is    *)
(* cut at the places where the interpreter gives up control or where the   *)
(* clock is read: the check and the start of the sleep, the end of the     *)
(* sleep and the invocation of func, the return (or raise) of func, and    *)
(* _update_last_called.                                                    *)
(***************************************************************************)
EXTENDS Integers, FiniteSets, Sequences, TLC

\* ------------------------------------------------------------------ bounds
\* The clock is read in 0 .. MaxTime.
MaxTime == 4
\* Intervals and interval arguments range over -MaxInterval .. MaxInterval.
MaxInterval == 2
\* Percentage arguments are the fractions -MaxHalves/2 .. MaxHalves/2.
MaxHalves == 3
\* check_for_wait() is called while total_requests < MaxRequests.
MaxRequests == 2

\* The commented-out RateLimiter: rates range over -MaxRate .. MaxRate,
\* periods over 1 .. MaxPeriod microseconds, and get_delay() is called while
\* its total_requests < MaxDelays.
MaxRate == 2
MaxPeriod == 3
MaxDelays == 3

\* ------------------------------------------------------- program constants
\* Microseconds in a second (timedelta.total_seconds()).
MicrosPerSecond == 1000000
\* Nanoseconds in a second (seconds_to_nanoseconds, nanoseconds_to_seconds).
NanosPerSecond == 1000000000

\* ------------------------------------------------------------ input sets
Tasks == {"a", "b"}
IntervalRange == (0 - MaxInterval) .. MaxInterval
\* A float delta that is exactly num/2: 1 + delta, 1 - delta and the product
\* with a small interval are then exact in binary floating point.
Fractions == {[num |-> n, den |-> 2] : n \in (0 - MaxHalves) .. MaxHalves}
\* What the caller passes to func, and the faults func may raise.
Args == {"x"}
Faults == {"ValueError"}
NoTime == 0 - 1

VARIABLES
    cls,             \* "sync": a SyncRateLimit, "async": an AsyncRateLimit
    limit_interval,  \* RateLimit.limit_interval
    last_called,     \* RateLimit.last_called
    total_delay,     \* RateLimit.total_delay
    total_requests,  \* RateLimit.total_requests
    now,             \* the reading perf_counter_ns() gives
    call,            \* per task: the limit() call it is in, or its last one
    result,          \* per task: what its last limit() call gave its caller
    entry,           \* per task: the limiter's fields when limit() was entered
    prev_invoked,    \* when func of the last successful limit() was invoked
    op,              \* the step taken last
    arg,             \* the value the last adjustment handed to set_interval
    given,           \* the argument the last adjustment was called with
    ret,             \* the value the last check_for_wait() returned
    rl               \* the fields of a RateLimiter (the commented-out class)

limiter == <<limit_interval, last_called, total_delay, total_requests>>
vars == <<cls, limit_interval, last_called, total_delay, total_requests, now,
          call, result, entry, prev_invoked, op, arg, given,
          ret, rl>>

\* ------------------------------------------------------- pure functions
\* Mutant of IntOf: floor division.
IntOf_floor(n, d) == n \div d

\* int(x) of a rational n/d, d > 0: truncation toward zero.
IntOf(n, d) == IF n >= 0 THEN n \div d ELSE 0 - ((0 - n) \div d)

\* nanoseconds_to_seconds: nanos / 1000000000, as whole seconds and the
\* remaining billionths of a second.
nanoseconds_to_seconds(nanos) ==
    [whole |-> nanos \div NanosPerSecond, frac |-> nanos % NanosPerSecond]

\* Mutant of sleep_until: the sleep returns at once.
sleep_until_at_once(t, seconds) == t

\* The clock reading at which a sleep(seconds) begun at reading t may end at
\* the earliest: sleep and asyncio.sleep suspend for at least `seconds`.
sleep_until(t, seconds) == t + seconds.whole * NanosPerSecond + seconds.frac

\* Mutant of check_for_wait: the wait is the whole interval, the time since
\* the last call is not taken off.
check_for_wait_whole(I, L, t, td, tr) ==
    IF t - L >= I
    THEN [ret |-> 0, total_delay |-> td, total_requests |-> tr]
    ELSE [ret |-> I, total_delay |-> td + I, total_requests |-> tr + 1]

\* Mutant of check_for_wait: every call is counted, delayed or not.
check_for_wait_counts_all(I, L, t, td, tr) ==
    IF t - L >= I
    THEN [ret |-> 0, total_delay |-> td, total_requests |-> tr + 1]
    ELSE [ret |-> I - (t - L), total_delay |-> td + (I - (t - L)),
          total_requests |-> tr + 1]

\* Mutant of check_for_wait: the comparison is strict.
check_for_wait_strict(I, L, t, td, tr) ==
    IF t - L > I
    THEN [ret |-> 0, total_delay |-> td, total_requests |-> tr]
    ELSE [ret |-> I - (t - L), total_delay |-> td + (I - (t - L)),
          total_requests |-> tr + 1]

\* Mutant of check_for_wait: last_called = 0 is read as "never called" and the
\* first call is let through.
check_for_wait_first_free(I, L, t, td, tr) ==
    IF L = 0 \/ t - L >= I
    THEN [ret |-> 0, total_delay |-> td, total_requests |-> tr]
    ELSE [ret |-> I - (t - L), total_delay |-> td + (I - (t - L)),
          total_requests |-> tr + 1]

\* check_for_wait() on a limiter with interval I, last_called L and counters
\* td, tr when the clock reads t: the value returned and the counters after.
check_for_wait(I, L, t, td, tr) ==
    LET since_last_called == t - L IN
    IF since_last_called >= I
    THEN [ret |-> 0, total_delay |-> td, total_requests |-> tr]
    ELSE LET wait == I - since_last_called IN
         [ret |-> wait, total_delay |-> td + wait, total_requests |-> tr + 1]

\* Mutant of set_interval: the requested value is what is clamped.
set_interval_clamps_request(cur, interval) ==
    IF interval <= 0 THEN 0 ELSE interval

\* set_interval: the interval after set_interval(interval) on a limiter whose
\* interval is cur.
set_interval(cur, interval) == IF cur <= 0 THEN 0 ELSE interval

\* The arguments the four adjustments hand to set_interval.
increase_interval_arg(cur, delta) == cur + delta
decrease_interval_arg(cur, delta) == cur - delta
increase_interval_percentage_arg(cur, f) == IntOf(cur * (f.den + f.num), f.den)
decrease_interval_percentage_arg(cur, f) == IntOf(cur * (f.den - f.num), f.den)

\* Mutant of limit_outcome: limit() calls func and drops what it returned.
limit_outcome_discards(func_out) ==
    IF func_out[1] = "return" THEN <<"return", "none">> ELSE func_out

\* The outcome limit() gives its caller for the outcome of func: there is no
\* try/except around the call, and the result is returned as it is.
limit_outcome(func_out) == func_out

\* ------------------------------------------------- RateLimiter, pure part
\* timedelta(microseconds=p / r) for r # 0: the quotient rounded to the
\* nearest microsecond, a half to the even one.
RoundHalfEven(p, r) ==
    LET ap == IF p >= 0 THEN p ELSE 0 - p
        ar == IF r >= 0 THEN r ELSE 0 - r
        q == ap \div ar
        twice == 2 * (ap % ar)
        m == IF twice < ar THEN q
             ELSE IF twice > ar THEN q + 1
             ELSE IF q % 2 = 0 THEN q ELSE q + 1
    IN  IF (p >= 0) = (r >= 0) THEN m ELSE 0 - m

\* _set_interval: the interval for a period (microseconds) and a rate; the
\* ZeroDivisionError of a zero rate is caught and gives 0.
rate_interval(period, rate) ==
    IF rate = 0 THEN 0 ELSE RoundHalfEven(period, rate)

\* timedelta.total_seconds(), as whole seconds and microseconds.
total_seconds(d) ==
    [seconds |-> d \div MicrosPerSecond, microseconds |-> d % MicrosPerSecond]

\* get_delay: the delay for last_request, interval and the reading t.
get_delay_delay(last_request, interval, t) ==
    LET next_call == last_request + interval IN
    IF next_call < t THEN 0 ELSE next_call - t

\* adjust_rate: float(rate + change).
adjust_rate_rate(rate, change) == rate + change

\* adjust_rate_multiplier: int(rate * multiplier), multiplier = mu.num / mu.den.
adjust_rate_multiplier_rate(rate, mu) == IntOf(rate * mu.num, mu.den)

\* ------------------------------------------------------------------ init
NoRateLimiter == [rate |-> 0, period |-> 0, interval |-> 0, last_request |-> 0,
                  total_delay |-> 0, total_requests |-> 0, adjusted |-> FALSE]
NoCall == [pc |-> "idle", args |-> "none", received |-> "none", wait |-> 0,
           wake_at |-> NoTime, invoked_at |-> NoTime, completed_at |-> NoTime,
           func_out |-> <<"none", "none">>]
NoEntry == [limit_interval |-> 0, last_called |-> 0, total_delay |-> 0,
            total_requests |-> 0]

Init ==
    /\ cls \in {"sync", "async"}
    /\ limit_interval \in IntervalRange
    /\ last_called = 0
    /\ total_delay = 0
    /\ total_requests = 0
    /\ now = 0
    /\ call = [t \in Tasks |-> NoCall]
    /\ result = [t \in Tasks |-> <<"none", "none">>]
    /\ entry = [t \in Tasks |-> NoEntry]
    /\ prev_invoked = NoTime
    /\ op = "init"
    /\ arg = 0
    /\ given = 0
    /\ ret = 0
    /\ rl = NoRateLimiter

\* --------------------------------------------------------------- actions
\* The names of the adjustments.
AdjustOps == {"set_interval", "increase_interval", "decrease_interval",
              "increase_interval_percentage", "decrease_interval_percentage"}
RateAdjustOps == {"adjust_rate", "adjust_rate_multiplier"}
RateOps == RateAdjustOps \cup {"get_delay"}

\* The step taken, the value it handed to set_interval (an adjustment) and the
\* value check_for_wait() returned in it (a check); 0 where there is none.
\* An adjustment records the argument it was called with itself, and only the
\* methods of the RateLimiter write its fields.
Note(name, a, r) ==
    /\ op' = name
    /\ arg' = a
    /\ ret' = r
    /\ IF name \in AdjustOps \cup RateAdjustOps THEN TRUE ELSE given' = 0
    /\ IF name \in RateOps THEN TRUE ELSE rl' = rl

\* The record of a finished limit() call is what the state reached by its last
\* step shows: the next step of the task, or of the clock, drops it.
Forget(T) ==
    /\ call' = [t \in Tasks |->
                   IF t \in T /\ call[t].pc = "idle" THEN NoCall ELSE call[t]]
    /\ result' = [t \in Tasks |->
                   IF t \in T /\ call[t].pc = "idle" THEN <<"none", "none">>
                   ELSE result[t]]
    /\ entry' = [t \in Tasks |->
                   IF t \in T /\ call[t].pc = "idle" THEN NoEntry
                   ELSE entry[t]]

\* The clock advances.
Tick ==
    /\ now < MaxTime
    /\ now' = now + 1
    /\ Note("tick", 0, 0)
    /\ Forget(Tasks)
    /\ UNCHANGED <<cls, limiter, prev_invoked>>

\* check_for_wait() as called now.
Checked ==
    check_for_wait(limit_interval, last_called, now, total_delay,
                   total_requests)

\* The fields check_for_wait() writes.
CheckEffect ==
    /\ total_requests < MaxRequests
    /\ total_delay' = Checked.total_delay
    /\ total_requests' = Checked.total_requests
    /\ UNCHANGED <<limit_interval, last_called>>

\* A direct call of check_for_wait() by a caller that is not inside limit().
CheckForWait(t) ==
    /\ call[t].pc = "idle"
    /\ CheckEffect
    /\ Note("check_for_wait", 0, Checked.ret)
    /\ Forget({t})
    /\ UNCHANGED <<cls, now, prev_invoked>>

\* Mutant of Adjust: setting the interval starts the statistics afresh.
Adjust_resets(t, name, interval) ==
    /\ call[t].pc = "idle"
    /\ set_interval(limit_interval, interval) \in IntervalRange
    /\ limit_interval' = set_interval(limit_interval, interval)
    /\ total_delay' = 0
    /\ total_requests' = 0
    /\ Note(name, interval, 0)
    /\ Forget({t})
    /\ UNCHANGED <<cls, last_called, now, prev_invoked>>

\* An adjustment that hands `interval` to set_interval.
Adjust(t, name, interval) ==
    /\ call[t].pc = "idle"
    /\ set_interval(limit_interval, interval) \in IntervalRange
    /\ limit_interval' = set_interval(limit_interval, interval)
    /\ Note(name, interval, 0)
    /\ Forget({t})
    /\ UNCHANGED <<cls, last_called, total_delay, total_requests, now,
                   prev_invoked>>

SetInterval(t) ==
    \E v \in IntervalRange : Adjust(t, "set_interval", v) /\ given' = v

IncreaseInterval(t) ==
    \E d \in IntervalRange :
        /\ Adjust(t, "increase_interval",
                  increase_interval_arg(limit_interval, d))
        /\ given' = d

DecreaseInterval(t) ==
    \E d \in IntervalRange :
        /\ Adjust(t, "decrease_interval",
                  decrease_interval_arg(limit_interval, d))
        /\ given' = d

IncreaseIntervalPercentage(t) ==
    \E f \in Fractions :
        /\ Adjust(t, "increase_interval_percentage",
                  increase_interval_percentage_arg(limit_interval, f))
        /\ given' = f

DecreaseIntervalPercentage(t) ==
    \E f \in Fractions :
        /\ Adjust(t, "decrease_interval_percentage",
                  decrease_interval_percentage_arg(limit_interval, f))
        /\ given' = f

\* limit(func, a) is entered: _respect_limit calls check_for_wait() and
\* starts the sleep for the seconds it returned.
Limit(t) ==
    \E a \in Args :
        LET w == Checked.ret IN
        /\ call[t].pc = "idle"
        /\ CheckEffect
        /\ entry' = [entry EXCEPT ![t] =
                        [limit_interval |-> limit_interval,
                         last_called |-> last_called,
                         total_delay |-> total_delay,
                         total_requests |-> total_requests]]
        /\ call' = [call EXCEPT ![t] =
                        [NoCall EXCEPT !.pc = "sleeping", !.args = a,
                            !.wait = w,
                            !.wake_at =
                                sleep_until(now, nanoseconds_to_seconds(w))]]
        /\ result' = [result EXCEPT ![t] = <<"none", "none">>]
        /\ Note("limit", 0, w)
        /\ UNCHANGED <<cls, now, prev_invoked>>

\* Mutant of Invoke: AsyncRateLimit.limit does not await _respect_limit(), so
\* func is called without the sleep.
Invoke_unawaited(t) ==
    /\ call[t].pc = "sleeping"
    /\ cls = "async" \/ now >= call[t].wake_at
    /\ call' = [call EXCEPT ![t].pc = "running", ![t].invoked_at = now,
                            ![t].received = call[t].args]
    /\ Note("invoke", 0, 0)
    /\ UNCHANGED <<cls, limiter, now, result, entry, prev_invoked>>

\* The sleep is over and func(*args) is called.
Invoke(t) ==
    /\ call[t].pc = "sleeping"
    /\ now >= call[t].wake_at
    /\ call' = [call EXCEPT ![t].pc = "running", ![t].invoked_at = now,
                            ![t].received = call[t].args]
    /\ Note("invoke", 0, 0)
    /\ UNCHANGED <<cls, limiter, now, result, entry, prev_invoked>>

\* func returns a value.
FuncReturn(t) ==
    /\ call[t].pc = "running"
    /\ call' = [call EXCEPT ![t].pc = "updating", ![t].completed_at = now,
                   ![t].func_out = <<"return", call[t].received>>]
    /\ Note("func_return", 0, 0)
    /\ UNCHANGED <<cls, limiter, now, result, entry, prev_invoked>>

\* Mutant of FuncRaise: _update_last_called() runs in a finally clause.
FuncRaise_finally(t) ==
    \E f \in Faults :
        /\ call[t].pc = "running"
        /\ call' = [call EXCEPT ![t].pc = "idle", ![t].completed_at = now,
                       ![t].func_out = <<"raise", f>>]
        /\ result' = [result EXCEPT ![t] = limit_outcome(<<"raise", f>>)]
        /\ last_called' = now
        /\ Note("func_raise", 0, 0)
        /\ UNCHANGED <<cls, limit_interval, total_delay, total_requests, now,
                       entry, prev_invoked>>

\* func raises: the fault leaves limit() at line 169 / 201.
FuncRaise(t) ==
    \E f \in Faults :
        /\ call[t].pc = "running"
        /\ call' = [call EXCEPT ![t].pc = "idle", ![t].completed_at = now,
                       ![t].func_out = <<"raise", f>>]
        /\ result' = [result EXCEPT ![t] = limit_outcome(<<"raise", f>>)]
        /\ Note("func_raise", 0, 0)
        /\ UNCHANGED <<cls, limiter, now, entry, prev_invoked>>

\* Mutant of UpdateLastCalled: last_called is the reading taken when func was
\* called, not one taken after it returned.
UpdateLastCalled_at_start(t) ==
    /\ call[t].pc = "updating"
    /\ last_called' = call[t].invoked_at
    /\ call' = [call EXCEPT ![t].pc = "idle"]
    /\ result' = [result EXCEPT ![t] = limit_outcome(call[t].func_out)]
    /\ prev_invoked' = call[t].invoked_at
    /\ Note("update_last_called", 0, 0)
    /\ UNCHANGED <<cls, limit_interval, total_delay, total_requests, now,
                   entry>>

\* _update_last_called(), then limit() returns the result of func.
UpdateLastCalled(t) ==
    /\ call[t].pc = "updating"
    /\ last_called' = now
    /\ call' = [call EXCEPT ![t].pc = "idle"]
    /\ result' = [result EXCEPT ![t] = limit_outcome(call[t].func_out)]
    /\ prev_invoked' = call[t].invoked_at
    /\ Note("update_last_called", 0, 0)
    /\ UNCHANGED <<cls, limit_interval, total_delay, total_requests, now,
                   entry>>

\* Mutant of Cancel: the cancelled call marks the limiter as called.
Cancel_marks_called(t) ==
    /\ cls = "async"
    /\ call[t].pc = "sleeping"
    /\ call' = [call EXCEPT ![t].pc = "idle"]
    /\ result' = [result EXCEPT ![t] = <<"raise", "CancelledError">>]
    /\ last_called' = now
    /\ Note("cancel", 0, 0)
    /\ UNCHANGED <<cls, limit_interval, total_delay, total_requests, now,
                   entry, prev_invoked>>

\* Mutant of Cancel: the cancelled call takes its wait back off the counters.
Cancel_rolls_back(t) ==
    /\ cls = "async"
    /\ call[t].pc = "sleeping"
    /\ call' = [call EXCEPT ![t].pc = "idle"]
    /\ result' = [result EXCEPT ![t] = <<"raise", "CancelledError">>]
    /\ total_delay' = entry[t].total_delay
    /\ total_requests' = entry[t].total_requests
    /\ Note("cancel", 0, 0)
    /\ UNCHANGED <<cls, limit_interval, last_called, now, entry,
                   prev_invoked>>

\* The task awaiting AsyncRateLimit.limit() is cancelled during the sleep:
\* CancelledError is raised at the await of line 174.
Cancel(t) ==
    /\ cls = "async"
    /\ call[t].pc = "sleeping"
    /\ call' = [call EXCEPT ![t].pc = "idle"]
    /\ result' = [result EXCEPT ![t] = <<"raise", "CancelledError">>]
    /\ Note("cancel", 0, 0)
    /\ UNCHANGED <<cls, limiter, now, entry, prev_invoked>>

TaskStep(t) ==
    \/ CheckForWait(t)
    \/ SetInterval(t)
    \/ IncreaseInterval(t)
    \/ DecreaseInterval(t)
    \/ IncreaseIntervalPercentage(t)
    \/ DecreaseIntervalPercentage(t)
    \/ Limit(t)
    \/ Invoke(t)
    \/ FuncReturn(t)
    \/ FuncRaise(t)
    \/ UpdateLastCalled(t)
    \/ Cancel(t)

\* One logical caller owns the limiter.
Caller == "a"
Next == Tick \/ TaskStep(Caller)
Spec == Init /\ [][Next]_vars

\* Two tasks await limit() of one shared AsyncRateLimit whose interval is
\* positive; nothing synchronizes them.
LimitStep(t) ==
    \/ Limit(t)
    \/ Invoke(t)
    \/ FuncReturn(t)
    \/ FuncRaise(t)
    \/ UpdateLastCalled(t)
    \/ Cancel(t)

InitConc == Init /\ cls = "async" /\ limit_interval > 0
NextConc == Tick \/ \E t \in Tasks : LimitStep(t)
SpecConc == InitConc /\ [][NextConc]_vars

\* ------------------------------------------------------------ RateLimiter
\* The commented-out class RateLimiter (lines 209-260), on a clock of
\* microseconds; the fields of the RateLimit classes stay as constructed.
Rates == (0 - MaxRate) .. MaxRate
Periods == 1 .. MaxPeriod
Multipliers == {[num |-> n, den |-> 2] : n \in 0 .. 4}
rest == <<cls, limiter, call, result, entry, prev_invoked>>

\* RateLimiter(rate, period), constructed when the clock reads 0.
InitRate ==
    /\ cls = "sync"
    /\ limit_interval = 0
    /\ last_called = 0
    /\ total_delay = 0
    /\ total_requests = 0
    /\ now = 0
    /\ call = [t \in Tasks |-> NoCall]
    /\ result = [t \in Tasks |-> <<"none", "none">>]
    /\ entry = [t \in Tasks |-> NoEntry]
    /\ prev_invoked = NoTime
    /\ op = "init"
    /\ arg = 0
    /\ given = 0
    /\ ret = 0
    /\ \E rate \in Rates, period \in Periods :
           rl = [rate |-> rate, period |-> period,
                 interval |-> rate_interval(period, rate),
                 last_request |-> now, total_delay |-> 0,
                 total_requests |-> 0, adjusted |-> FALSE]

\* The clock of the RateLimiter advances.
RateTick == Tick

\* Mutant of GetDelay: the schedule restarts at the clock reading, as
\* last_called does in RateLimit.
GetDelay_from_now ==
    LET delay == get_delay_delay(rl.last_request, rl.interval, now) IN
    /\ rl.total_requests < MaxDelays
    /\ rl' = [rl EXCEPT !.total_requests = rl.total_requests + 1,
                        !.last_request = now + delay,
                        !.total_delay = rl.total_delay + delay]
    /\ Note("get_delay", 0, total_seconds(delay))
    /\ UNCHANGED <<rest, now>>

\* get_delay()
GetDelay ==
    LET delay == get_delay_delay(rl.last_request, rl.interval, now) IN
    /\ rl.total_requests < MaxDelays
    /\ rl' = [rl EXCEPT !.total_requests = rl.total_requests + 1,
                        !.last_request = rl.last_request + rl.interval,
                        !.total_delay = rl.total_delay + delay]
    /\ Note("get_delay", 0, total_seconds(delay))
    /\ UNCHANGED <<rest, now>>

\* The rate is set to new_rate and _set_interval() recomputes the interval.
SetRate(name, new_rate) ==
    /\ new_rate \in Rates
    /\ rl' = [rl EXCEPT !.rate = new_rate,
                        !.interval = rate_interval(rl.period, new_rate),
                        !.adjusted = TRUE]
    /\ Note(name, 0, 0)
    /\ UNCHANGED <<rest, now>>

\* adjust_rate(change)
AdjustRate ==
    \E change \in Rates :
        /\ SetRate("adjust_rate", adjust_rate_rate(rl.rate, change))
        /\ given' = change

\* adjust_rate_multiplier(multiplier)
AdjustRateMultiplier ==
    \E mu \in Multipliers :
        /\ SetRate("adjust_rate_multiplier",
                   adjust_rate_multiplier_rate(rl.rate, mu))
        /\ given' = mu

NextRate == RateTick \/ GetDelay \/ AdjustRate \/ AdjustRateMultiplier
SpecRate == InitRate /\ [][NextRate]_vars

\* ================================================================ claims
\* The steps in which check_for_wait() runs.
CheckOps == {"check_for_wait", "limit"}
InFunc(t) == call[t].pc \in {"running", "updating"}
Aborted(t) == call[t].pc = "idle" /\ result[t][1] = "raise"

\* C1: for one caller, func of a limit() call is invoked no earlier than the
\* invocation of func in the previous successful call plus the interval that
\* the call's check_for_wait() read.
C1_Spacing ==
    (InFunc(Caller) /\ prev_invoked # NoTime) =>
        call[Caller].invoked_at >= prev_invoked + entry[Caller].limit_interval

\* C1 witness: a second call that had to wait is invoked exactly one positive
\* interval after the first.
C1_Witness ==
    /\ call[Caller].pc = "running"
    /\ prev_invoked # NoTime
    /\ entry[Caller].limit_interval > 0
    /\ call[Caller].wait > 0
    /\ call[Caller].invoked_at = prev_invoked + entry[Caller].limit_interval

\* C2: when func raises inside limit(), limit() raises the same fault, the call
\* is over (no retry, no _update_last_called) and last_called is what it was
\* when limit() was entered.
C2_FaultPropagates ==
    \A t \in {Caller} :
        call[t].func_out[1] = "raise" =>
            /\ call[t].pc = "idle"
            /\ result[t] = call[t].func_out
            /\ last_called = entry[t].last_called

\* C2 witness: func raised at a clock reading later than last_called.
C2_Witness ==
    /\ op = "func_raise"
    /\ result[Caller] = <<"raise", "ValueError">>
    /\ now > last_called

\* C3 (as claimed): after an adjustment the interval is not negative, and a
\* negative value handed to set_interval leaves the interval 0.
C3_IntervalNeverNegative ==
    op \in AdjustOps =>
        /\ limit_interval >= 0
        /\ (arg < 0 => limit_interval = 0)

\* C4: a check_for_wait() with 0 <= I and E = now - last_called < I returns
\* I - E, adds I - E to total_delay and 1 to total_requests.
C4_WaitIsRemainder ==
    [][(op' \in CheckOps /\ limit_interval >= 0
            /\ now - last_called < limit_interval) =>
        /\ ret' = limit_interval - (now - last_called)
        /\ total_delay' = total_delay + (limit_interval - (now - last_called))
        /\ total_requests' = total_requests + 1]_vars

\* C4 witness: a check after some time has passed returned a positive wait
\* shorter than the interval.
C4_Witness ==
    /\ op = "check_for_wait"
    /\ ret > 0
    /\ ret < limit_interval
    /\ total_requests > 0

\* C5: a check_for_wait() with E = now - last_called >= I returns 0 and
\* changes no field of the limiter.
C5_NoWaitNoEffect ==
    [][(op' \in CheckOps /\ now - last_called >= limit_interval) =>
        /\ ret' = 0
        /\ UNCHANGED limiter]_vars

\* C5 witness: a check that needed no wait, on a limiter with a positive
\* interval that has counted a delay before.
C5_Witness ==
    /\ op = "check_for_wait"
    /\ ret = 0
    /\ limit_interval > 0
    /\ now - last_called >= limit_interval
    /\ total_requests > 0

C7_ZeroWait ==
    [][limit_interval <= 0 =>
        /\ op' \in CheckOps => ret' = 0
        /\ op' = "limit" =>
              /\ call'[Caller].wait = 0
              /\ call'[Caller].wake_at = now
        /\ total_delay' = total_delay
        /\ total_requests' = total_requests]_vars

\* C7 witness: func is invoked in the step after limit() was entered, at the
\* same clock reading, on a limiter that was constructed with a negative
\* interval and called before.
C7_Witness ==
    /\ op = "invoke"
    /\ limit_interval < 0
    /\ call[Caller].invoked_at = now
    /\ call[Caller].wait = 0
    /\ now = last_called
    /\ prev_invoked # NoTime

\* C8: a limit() cancelled during its sleep raises CancelledError, has not
\* invoked func, and leaves last_called and limit_interval as they were when
\* limit() was entered.
C8_CancelLeavesState ==
    \A t \in {Caller} :
        (call[t].pc = "idle" /\ result[t] = <<"raise", "CancelledError">>) =>
            /\ op = "cancel"
            /\ call[t].invoked_at = NoTime
            /\ call[t].received = "none"
            /\ last_called = entry[t].last_called
            /\ limit_interval = entry[t].limit_interval

\* C8 witness: a call was cancelled during a positive wait, after the clock
\* had advanced.
C8_Witness ==
    /\ op = "cancel"
    /\ result[Caller] = <<"raise", "CancelledError">>
    /\ call[Caller].wait > 0
    /\ now > last_called

\* C9: after a limit() that was given a wait W > 0 is aborted (cancelled in the
\* sleep, or func raised), total_delay is its value at entry plus W and
\* total_requests its value at entry plus 1.
C9_NoRollback ==
    \A t \in {Caller} :
        (Aborted(t) /\ call[t].wait > 0) =>
            /\ total_delay = entry[t].total_delay + call[t].wait
            /\ total_requests = entry[t].total_requests + 1

\* C9 witness: a cancelled call that had been given a positive wait, on a
\* limiter that had counted a delay before.
C9_Witness ==
    /\ Aborted(Caller)
    /\ op = "cancel"
    /\ call[Caller].wait > 0
    /\ entry[Caller].total_requests > 0

\* C10: total_delay and total_requests never decrease, and change only in a
\* step in which check_for_wait() returns a wait that is not zero.
C10_CountersMonotone ==
    [][/\ total_delay' >= total_delay
       /\ total_requests' >= total_requests
       /\ (total_delay' # total_delay \/ total_requests' # total_requests) =>
              (op' \in CheckOps /\ ret' # 0)]_vars

\* C10 witness: an adjustment was made on a limiter that has counted delays.
C10_Witness ==
    /\ op \in AdjustOps
    /\ total_requests > 1
    /\ total_delay > total_requests

\* C11: two tasks inside limit() of one limiter that both were given a wait
\* computed from the same last_called and the same positive interval may both
\* end their sleep at the same clock reading, last_called + interval: nothing
\* keeps their invocations of func apart.
C11_SameWake ==
    \A t, u \in Tasks :
        (/\ t # u
         /\ call[t].pc # "idle" /\ call[u].pc # "idle"
         /\ call[t].wait > 0 /\ call[u].wait > 0
         /\ entry[t].last_called = entry[u].last_called
         /\ entry[t].limit_interval = entry[u].limit_interval) =>
            /\ call[t].wake_at = entry[t].last_called + entry[t].limit_interval
            /\ call[u].wake_at = call[t].wake_at

\* C11 witness: both tasks read the same last_called, entered limit() at
\* different clock readings, and their funcs are running, invoked less than
\* the interval apart.
C11_Witness ==
    /\ cls = "async"
    /\ call["a"].pc = "running" /\ call["b"].pc = "running"
    /\ entry["a"].last_called = entry["b"].last_called
    /\ entry["a"].limit_interval = entry["b"].limit_interval
    /\ entry["a"].limit_interval > 0
    /\ call["a"].wait > call["b"].wait
    /\ call["b"].wait > 0
    /\ call["b"].invoked_at - call["a"].invoked_at < entry["a"].limit_interval
    /\ call["a"].invoked_at - call["b"].invoked_at < entry["a"].limit_interval

\* r is n/d (d > 0) truncated toward zero.
IsTruncated(r, n, d) ==
    LET an == IF n >= 0 THEN n ELSE 0 - n
        ar == IF r >= 0 THEN r ELSE 0 - r
    IN  /\ ar * d <= an
        /\ an < (ar + 1) * d
        /\ (r > 0 => n > 0)
        /\ (r < 0 => n < 0)
Quarter == [num |-> 1, den |-> 4]

DueWait ==
    IF now - last_called >= limit_interval
    THEN 0
    ELSE limit_interval - (now - last_called)
PcOf(t) == call[t].pc

C14_VirtualSchedule ==
    [][/\ op' = "get_delay" =>
              /\ rl'.last_request = rl.last_request + rl.interval
              /\ rl'.total_requests = rl.total_requests + 1
       /\ (op' = "get_delay" /\ now = 0 /\ ~rl.adjusted /\ rl.rate >= 0) =>
              ret' = total_seconds(rl'.total_requests * rl.interval)
       /\ rate_interval(MicrosPerSecond, 2) = 500000
       /\ total_seconds(get_delay_delay(0, 500000, 0))
              = [seconds |-> 0, microseconds |-> 500000]
       /\ total_seconds(get_delay_delay(500000, 500000, 0))
              = [seconds |-> 1, microseconds |-> 0]
       /\ total_seconds(get_delay_delay(1000000, 500000, 0))
              = [seconds |-> 1, microseconds |-> 500000]]_vars

\* C14 witness: the third get_delay() in a row, the clock not advanced, returned
\* three positive intervals.
C14_Witness ==
    /\ op = "get_delay"
    /\ now = 0
    /\ ~rl.adjusted
    /\ rl.interval > 0
    /\ rl.total_requests = 3
    /\ rl.last_request = 3 * rl.interval
    /\ ret = total_seconds(3 * rl.interval)

\* C15 (as claimed): while the rate is 0, reached at construction or by an
\* adjustment, the interval is 0 and every get_delay() returns 0.
C15_ZeroRateNoDelay ==
    rl.rate = 0 =>
        /\ rl.interval = 0
        /\ op = "get_delay" => ret = total_seconds(0)

\* i is p / r (r # 0) to the nearest microsecond.
IsNearest(i, p, r) ==
    LET e == i * r - p
        ae == IF e >= 0 THEN e ELSE 0 - e
        ar == IF r >= 0 THEN r ELSE 0 - r
    IN  2 * ae <= ar

\* C16 (as claimed): adjust_rate(delta) leaves rate = old rate + delta,
\* adjust_rate_multiplier(factor) leaves rate = old rate * factor, and after
\* construction and after each of them interval = period / rate for a rate
\* that is not 0.
C16_RateAdjust ==
    [][/\ op' = "adjust_rate" => rl'.rate = rl.rate + given'
       /\ op' = "adjust_rate_multiplier" =>
              rl'.rate * given'.den = rl.rate * given'.num
       /\ rl'.rate # 0 => IsNearest(rl'.interval, rl'.period, rl'.rate)]_vars

\* C17: a limit() call that returns normally has made one check_for_wait (the
\* counters moved by that one check, the limiter's other fields untouched),
\* slept for the duration the check returned, called func once with the
\* caller's arguments no earlier than the end of the sleep, then run
\* _update_last_called, and it returns what func returned.
C17_LimitSteps ==
    LET t == Caller
        c == call[t]
        e == entry[t]
        chk == check_for_wait(e.limit_interval, e.last_called, now,
                              e.total_delay, e.total_requests)
        counted == IF c.wait > 0 THEN 1 ELSE 0
    IN  /\ op = "limit" =>
               /\ c.pc = "sleeping"
               /\ c.wait = chk.ret /\ ret = chk.ret
               /\ total_delay = chk.total_delay
               /\ total_requests = chk.total_requests
               /\ c.wake_at = now + c.wait
               /\ c.invoked_at = NoTime
               /\ last_called = e.last_called
        /\ c.pc = "sleeping" => c.invoked_at = NoTime
        /\ c.invoked_at # NoTime =>
               /\ c.invoked_at >= c.wake_at
               /\ c.received = c.args
        /\ op = "update_last_called" =>
               /\ c.pc = "idle"
               /\ c.func_out = <<"return", c.args>>
               /\ result[t] = <<"return", c.args>>
               /\ c.wake_at <= c.invoked_at
               /\ c.invoked_at <= c.completed_at
               /\ c.completed_at <= last_called
               /\ last_called = now
               /\ limit_interval = e.limit_interval
               /\ total_delay = e.total_delay + c.wait
               /\ total_requests = e.total_requests + counted

\* A limit() call that had to sleep has returned the result of func.
C17_Witness ==
    /\ op = "update_last_called"
    /\ call[Caller].wait > 0
    /\ call[Caller].invoked_at > call[Caller].wake_at
    /\ result[Caller] = <<"return", call[Caller].args>>

\* C18: last_called changes only in the _update_last_called step of limit(),
\* which runs after func returned and stores a clock reading taken at or after
\* the completion of func; check_for_wait, set_interval and the four
\* adjustments leave it alone.
C18_LastCalledWriter ==
    [][/\ last_called' # last_called =>
              /\ op' = "update_last_called"
              /\ call[Caller].pc = "updating"
       /\ op' = "update_last_called" =>
              /\ call[Caller].func_out[1] = "return"
              /\ call[Caller].completed_at # NoTime
              /\ last_called' >= call[Caller].completed_at
              /\ last_called' = now'
       /\ op' \in CheckOps \cup AdjustOps \cup {"limit"} =>
              last_called' = last_called]_vars

\* func took time: last_called is past the reading at which func was called.
C18_Witness ==
    /\ op = "update_last_called"
    /\ call[Caller].completed_at > call[Caller].invoked_at
    /\ last_called >= call[Caller].completed_at
    /\ last_called > call[Caller].invoked_at

\* C19: while last_called is still 0 and no limit() call has completed, a
\* check_for_wait (direct or in limit()) returns 0 exactly when the clock
\* reading is at least limit_interval; otherwise it returns limit_interval -
\* now and the wait is counted in total_delay and total_requests.
C19_FirstCall ==
    (op \in CheckOps \cup {"limit"} /\ last_called = 0
        /\ prev_invoked = NoTime) =>
        /\ ret = 0 <=> now >= limit_interval
        /\ now < limit_interval =>
               /\ ret = limit_interval - now
               /\ total_requests >= 1
               /\ total_delay >= ret
               /\ total_requests = 1 => total_delay = ret

\* The first call on a fresh limiter is delayed and counted.
C19_Witness ==
    /\ op = "limit"
    /\ last_called = 0 /\ prev_invoked = NoTime
    /\ now > 0 /\ now < limit_interval
    /\ ret = limit_interval - now
    /\ total_requests = 1 /\ total_delay = ret

\* C20: total_delay >= total_requests >= 0, and total_requests = 0 exactly when
\* total_delay = 0; a limit() call adds at most one to total_requests, and one
\* only when it was delayed, so n limit() calls add at most n.
C20_Counters ==
    /\ total_requests >= 0
    /\ total_delay >= total_requests
    /\ total_requests = 0 <=> total_delay = 0
    /\ op = "limit" =>
           /\ total_requests - entry[Caller].total_requests \in {0, 1}
           /\ total_requests - entry[Caller].total_requests = 1
                  <=> call[Caller].wait > 0
           /\ total_delay - entry[Caller].total_delay = call[Caller].wait

\* Two delayed calls were counted, one of them for more than one unit.
C20_Witness ==
    /\ total_requests = 2
    /\ total_delay > total_requests
    /\ op = "limit"
    /\ call[Caller].wait > 0

====
